---- MODULE Spec2Model ----
(***************************************************************************)
(* Model of the headway progress tracker (package tracker), of the moving  *)
(* average it uses (package ewma) and of the progress bar drawn from it    *)
(* (package probar): the bar's writer goroutine and the threads that call  *)
(* the bar and the tracker take one step per lock, unlock and print.       *)
(*                                                                         *)
(* float64 values are modelled as exact fractions <<n, d>> in lowest terms *)
(* with d >= 0.  d = 0 encodes the IEEE specials: <<1,0>> is +Inf,         *)
(* <<-1,0>> is -Inf and <<0,0>> is NaN.  Rounding and signed zeros are not *)
(* modelled.  time.Duration values are integers, counted in ticks of the   *)
(* clock; a run fixes how many ticks make one second (ticksPerSecond), so  *)
(* that both whole seconds and fractions of a millisecond are covered.     *)
(* Speeds are counted in units of 2^-speedExponent per second, so that     *)
(* the range in which the time left overflows int64 is covered.            *)
(***************************************************************************)
EXTENDS Integers, Sequences, FiniteSets, TLC

\* ---------------------------------------------------------------- bounds
\* progress samples are multiples of 1/ValueDenominator
ValueDenominator == 2
\* the wall clock stops advancing at MaxTime
MaxTime == 3
\* number of tracker operations in one run
MaxOps == 3
\* number of finish callbacks that get registered
MaxObservers == 2
\* clock advance between the two clock reads of one SetProgress
MaxSkew == 1
\* operations the callers of the bar begin
MaxCalls == 3
\* times the writer's refresh timer fires
MaxRedraws == 1
\* lines passed to Println
MaxLines == 2

\* ------------------------------------------------------- float64 helpers
RECURSIVE Gcd(_, _)
Gcd(a, b) == IF b = 0 THEN a ELSE Gcd(b, a % b)

Abs(x) == IF x < 0 THEN 0 - x ELSE x

Sign(x) == IF x < 0 THEN 0 - 1 ELSE IF x > 0 THEN 1 ELSE 0

\* the float64 with value n/d
F(n, d) ==
    IF d = 0 THEN <<Sign(n), 0>>
    ELSE LET g == Gcd(Abs(n), Abs(d))
         IN  <<(Sign(d) * n) \div g, Abs(d) \div g>>

\* the least common multiple of two positive integers
Lcm(a, b) == (a \div Gcd(a, b)) * b

Zero == <<0, 1>>
One == <<1, 1>>
NaN == <<0, 0>>
PosInf == <<1, 0>>

IsNaN(a) == a = NaN
IsInf(a) == a[2] = 0 /\ a[1] # 0
IsFinite(a) == a[2] > 0

\* a + b
FAdd(a, b) ==
    IF IsNaN(a) \/ IsNaN(b) THEN NaN
    ELSE IF IsInf(a) /\ IsInf(b) THEN (IF a = b THEN a ELSE NaN)
    ELSE IF IsInf(a) THEN a
    ELSE IF IsInf(b) THEN b
    ELSE LET l == Lcm(a[2], b[2])
         IN  F(a[1] * (l \div a[2]) + b[1] * (l \div b[2]), l)

FNeg(a) == <<0 - a[1], a[2]>>

\* a - b
FSub(a, b) == FAdd(a, FNeg(b))

\* a * b
FMul(a, b) ==
    IF IsNaN(a) \/ IsNaN(b) THEN NaN
    ELSE IF a[2] = 0 \/ b[2] = 0 THEN F(a[1] * b[1], 0)
    ELSE LET g == Gcd(Abs(a[1]), b[2])
             h == Gcd(Abs(b[1]), a[2])
         IN  F((a[1] \div g) * (b[1] \div h), (a[2] \div h) * (b[2] \div g))

\* a / b
FDiv(a, b) ==
    IF IsNaN(a) \/ IsNaN(b) THEN NaN
    ELSE IF IsInf(a) /\ IsInf(b) THEN NaN
    ELSE FMul(a, <<(IF b[1] < 0 THEN 0 - 1 ELSE 1) * b[2], Abs(b[1])>>)

\* a < b (false when either side is NaN)
FLt(a, b) ==
    IF IsNaN(a) \/ IsNaN(b) THEN FALSE
    ELSE IF IsInf(a) \/ IsInf(b) THEN
         (IF IsInf(a) THEN a[1] ELSE 0) < (IF IsInf(b) THEN b[1] ELSE 0)
    ELSE LET l == Lcm(a[2], b[2])
         IN  a[1] * (l \div a[2]) < b[1] * (l \div b[2])

\* a > b
FGt(a, b) == FLt(b, a)

\* a == b (false when either side is NaN)
FEq(a, b) == ~IsNaN(a) /\ ~IsNaN(b) /\ a = b

\* a <= b
FLe(a, b) == FLt(a, b) \/ FEq(a, b)

\* ------------------------------------------------------------- constants
\* math.MaxFloat64, the initial value of minSpeed
MaxFloat64 == <<1000000, 1>>
\* ewma.averageMetricAge
averageMetricAge == 5
\* ewma.decay
decay == F(2, averageMetricAge + 1)

\* ------------------------------------------------------------------ ewma
\* ewma.New
NewAverage(initial) == initial

\* Add weighting the old value by decay instead of 1 - decay
AverageAddBothDecay(a, x) ==
    IF FEq(a, Zero) THEN x
    ELSE FAdd(FMul(x, decay), FMul(a, decay))

\* Add smoothing against a value of zero too
AverageAddNoColdStart(a, x) ==
    FAdd(FMul(x, decay), FMul(a, FSub(One, decay)))

\* (*average).Add: the value of the average after adding x
AverageAdd(a, x) ==
    IF FEq(a, Zero) THEN x
    ELSE FAdd(FMul(x, decay), FMul(a, FSub(One, decay)))

\* ----------------------------------------------------------------- state
VARIABLES
    ticksPerSecond,      \* the resolution of the clock in this run
    speedExponent,       \* speeds are held in units of 2^-speedExponent per
                         \* second, times computed from them in units of
                         \* 2^speedExponent seconds; 0 unless progress is slow
    clock,               \* time.Now(), in ticks
    value,               \* tracker.value
    measurementInterval, \* tracker.measurementInterval
    paused,              \* tracker.paused
    onFinish,            \* tracker.onFinish, a sequence of callback ids
    duration,            \* tracker.duration
    speed,               \* tracker.speed
    minSpeed,            \* tracker.minSpeed
    maxSpeed,            \* tracker.maxSpeed
    speedAverage,        \* tracker.speedAverage
    secondsLeftAverage,  \* tracker.secondsLeftAverage
    lastMeasurement,     \* tracker.lastMeasurement: <<>> is nil, else <<m>>
    invoked,             \* the callbacks run so far, in order of invocation
    ret,                 \* what the last Finish returned: <<>> or <<stats>>
    call,                \* the last operation called, with its argument
    pre,                 \* <<>>, or <<the state in which that operation began>>
    recorded,            \* the instantaneous speeds computed since the last reset
    nOps                 \* number of operations called so far

\* the progress bar, its background writer and the threads calling into it
VARIABLES
    pc,         \* where each thread is in its code
    step,       \* the step of tracker.Finish each thread is at, 0 outside it
    cbs,        \* the callbacks each thread's Finish has still to invoke
    mutex,      \* tracker.mutex: the thread holding it, or "none"
    barMutex,   \* bar.mutex: the thread holding it, or "none"
    lines,      \* bar.lines, a sequence of line ids
    nLines,     \* number of lines enqueued so far; the k-th is line k
    finished,   \* bar.finished
    finishChan, \* bar.finishChan: how many times it was closed, 0 is open
    out,        \* what opts.Printf has written to the sink, in order
    redraws,    \* number of times the refresh timer fired
    prefix,     \* bar.prefix: 0 is the empty string, else a text id
    nCalls      \* number of operations the callers began

vars == <<ticksPerSecond, speedExponent, clock, value, measurementInterval, paused, onFinish, duration, speed,
          minSpeed, maxSpeed, speedAverage, secondsLeftAverage,
          lastMeasurement, invoked, ret, call, pre, recorded, nOps,
          pc, step, cbs, mutex, barMutex, lines, nLines, finished, finishChan,
          out, redraws, prefix, nCalls>>

barVars == <<pc, step, cbs, mutex, barMutex, lines, nLines, finished,
             finishChan, out, redraws, prefix, nCalls>>

\* the background writer started by probar.New
Writer == "writer"

\* the threads of the program that call the tracker and the bar
Callers == {"a", "b"}

Threads == {Writer} \cup Callers

\* the values a caller passes as progress: below, inside and above [0,1]
Samples == { F(k, ValueDenominator) : k \in (0 - 1)..(ValueDenominator + 1) }

\* time.Second, in ticks
Second == ticksPerSecond

\* time.Millisecond is a thousandth of time.Second
MillisecondsPerSecond == 1000

\* Duration.Seconds()
Seconds(d) == F(d, Second)

\* the runs: Opts.MeasurementInterval (in ticks) unset or two seconds, on a
\* clock read in whole seconds, or 250 microseconds, on a clock read in
\* quarters of a millisecond
Runs ==
    { [MeasurementInterval |-> 0, ticksPerSecond |-> 1],
      [MeasurementInterval |-> 2, ticksPerSecond |-> 1],
      [MeasurementInterval |-> 1, ticksPerSecond |-> 4 * MillisecondsPerSecond] }

\* the tracker struct
Tracker ==
    [value |-> value, measurementInterval |-> measurementInterval,
     paused |-> paused, onFinish |-> onFinish, duration |-> duration,
     speed |-> speed, minSpeed |-> minSpeed, maxSpeed |-> maxSpeed,
     speedAverage |-> speedAverage,
     secondsLeftAverage |-> secondsLeftAverage,
     lastMeasurement |-> lastMeasurement]

\* the tracker becomes t
Becomes(t) ==
    /\ value' = t.value
    /\ measurementInterval' = t.measurementInterval
    /\ paused' = t.paused
    /\ onFinish' = t.onFinish
    /\ duration' = t.duration
    /\ speed' = t.speed
    /\ minSpeed' = t.minSpeed
    /\ maxSpeed' = t.maxSpeed
    /\ speedAverage' = t.speedAverage
    /\ secondsLeftAverage' = t.secondsLeftAverage
    /\ lastMeasurement' = t.lastMeasurement

\* the tracker starts as t
StartsAs(t) ==
    /\ value = t.value
    /\ measurementInterval = t.measurementInterval
    /\ paused = t.paused
    /\ onFinish = t.onFinish
    /\ duration = t.duration
    /\ speed = t.speed
    /\ minSpeed = t.minSpeed
    /\ maxSpeed = t.maxSpeed
    /\ speedAverage = t.speedAverage
    /\ secondsLeftAverage = t.secondsLeftAverage
    /\ lastMeasurement = t.lastMeasurement

\* ------------------------------------------------------------ operations
\* Opts.ensureDefaults
ensureDefaults(interval) == IF interval = 0 THEN 1 * Second ELSE interval

\* clamp without its lower bound
clampUpperOnly(v) == IF FGt(v, One) THEN One ELSE v

\* clamp
clamp(v) ==
    IF FGt(v, One) THEN One
    ELSE IF FLt(v, Zero) THEN Zero
    ELSE v

\* tracker.New
New(optsValue, optsInterval) ==
    [value |-> optsValue,
     measurementInterval |-> ensureDefaults(optsInterval),
     paused |-> FALSE,
     onFinish |-> <<>>,
     duration |-> 0,
     speed |-> Zero,
     minSpeed |-> MaxFloat64,
     maxSpeed |-> Zero,
     speedAverage |-> NewAverage(Zero),
     secondsLeftAverage |-> NewAverage(Zero),
     lastMeasurement |-> <<>>]

\* lockedResetMeasurement leaving the two moving averages in place
resetKeepsAverages(t) ==
    [t EXCEPT !.lastMeasurement = <<>>,
              !.speed = Zero,
              !.minSpeed = MaxFloat64,
              !.maxSpeed = Zero]

\* tracker.lockedResetMeasurement
lockedResetMeasurement(t) ==
    [t EXCEPT !.lastMeasurement = <<>>,
              !.speed = Zero,
              !.minSpeed = MaxFloat64,
              !.maxSpeed = Zero,
              !.speedAverage = NewAverage(Zero),
              !.secondsLeftAverage = NewAverage(Zero)]

\* lockedUpdateMeasurement without its reset of a paused tracker
NoPauseCheck(t) == t

\* the tracker on which lockedUpdateMeasurement reads the anchor
AfterPauseCheck(t) == IF t.paused THEN lockedResetMeasurement(t) ELSE t

\* UpdatePath without the test for a negative valueDelta
UpdatePathNoRegression(t, c, sinceLast) ==
    LET last == AfterPauseCheck(t).lastMeasurement
    IN  IF last = <<>> THEN "anchor"
        ELSE IF sinceLast < t.measurementInterval THEN "throttled"
        ELSE "rate"

\* UpdatePath without the test of sinceLast against measurementInterval
UpdatePathNoThrottle(t, c, sinceLast) ==
    LET last == AfterPauseCheck(t).lastMeasurement
    IN  IF last = <<>> THEN "anchor"
        ELSE IF FLt(FSub(c, last[1].value), Zero) THEN "regression"
        ELSE "rate"

\* which way lockedUpdateMeasurement(value) goes when time.Since returns
\* sinceLast: "anchor", "throttled", "regression" or "rate"
UpdatePath(t, c, sinceLast) ==
    LET last == AfterPauseCheck(t).lastMeasurement
    IN  IF last = <<>> THEN "anchor"
        ELSE IF sinceLast < t.measurementInterval THEN "throttled"
        ELSE IF FLt(FSub(c, last[1].value), Zero) THEN "regression"
        ELSE "rate"

\* the progress made, taken for the progress left to make
RemainingIsValue(t) == t.value

\* 1.0 - t.value, the progress left to make
Remaining(t) == FSub(One, t.value)

\* a minimum that follows the last instantaneous speed
minSpeedIsLast(old, s) == s

\* t.minSpeed after an instantaneous speed of s
minSpeedAfter(old, s) == IF FLt(s, old) THEN s ELSE old

\* t.maxSpeed after an instantaneous speed of s
maxSpeedAfter(old, s) == IF FGt(s, old) THEN s ELSE old

\* tracker.lockedUpdateMeasurement(c), with time.Now() = now and
\* time.Since(lastMeasurement.time) = sinceLast
lockedUpdateMeasurement(t, c, now, sinceLast) ==
    LET t1 == AfterPauseCheck(t)
        path == UpdatePath(t, c, sinceLast)
        anchor == <<[time |-> now, value |-> c]>>
        t2 == [t1 EXCEPT !.duration = @ + sinceLast]
        valueDelta == FSub(c, t1.lastMeasurement[1].value)
        newSpeed == FDiv(valueDelta, Seconds(sinceLast))
        newAverage == AverageAdd(t1.speedAverage, newSpeed)
        secondsLeft == FDiv(Remaining(t1), newAverage)
    IN  CASE path = "anchor" -> [t1 EXCEPT !.lastMeasurement = anchor]
          [] path = "throttled" -> t1
          [] path = "regression" -> lockedResetMeasurement(t2)
          [] path = "rate" ->
                [t2 EXCEPT !.speed = newSpeed,
                           !.speedAverage = newAverage,
                           !.maxSpeed = maxSpeedAfter(@, newSpeed),
                           !.minSpeed = minSpeedAfter(@, newSpeed),
                           !.secondsLeftAverage = AverageAdd(@, secondsLeft),
                           !.lastMeasurement = anchor]

\* FinishDuration adding the time since the tracker's start (time 0)
FinishDurationSinceStart(t, now) == t.duration + now

\* the total duration Finish computes at time now
FinishDuration(t, now) ==
    IF t.lastMeasurement # <<>>
    THEN t.duration + (now - t.lastMeasurement[1].time)
    ELSE t.duration

\* the CompletionStats of a tracker
CompletionStats(t) ==
    [duration |-> t.duration,
     averageSpeed |-> FDiv(One, Seconds(t.duration)),
     minSpeed |-> t.minSpeed,
     maxSpeed |-> t.maxSpeed]

\* time.Duration(f): the integer part of a finite f
Trunc(f) == Sign(f[1]) * (Abs(f[1]) \div f[2])

\* 2^n
RECURSIVE Pow2(_)
Pow2(n) == IF n = 0 THEN 1 ELSE 2 * Pow2(n - 1)

\* 2^n modulo m
RECURSIVE Pow2Mod(_, _)
Pow2Mod(n, m) == IF n = 0 THEN 1 % m ELSE (2 * Pow2Mod(n - 1, m)) % m

\* time.Duration is an int64
Int64Bits == 64

\* time.Millisecond, a time.Duration, in nanoseconds: 2^6 * 5^6
NanosecondsPerMillisecond == 1000000

\* time.Millisecond * time.Duration(x) for the float64 x = f * 2^e, computed
\* as Go computes it: x is truncated to an int64 of milliseconds and the
\* product of nanoseconds wraps around modulo 2^64.  The result is given in
\* units of 2^e milliseconds, rounded down, and as -1 when it is negative
\* (the code uses only the sign of a negative result).
\*   With f = p/q and ms = (p * 2^e - r) / q, r = (p * 2^e) % q, the product
\* is ms * 10^6 nanoseconds; halves is how many times 2^63 goes into it:
\* none when e <= 26 (p * 5^6 is below 2^31 in every state TLC can hold),
\* and else ((p * 5^6 - r * 5^6 / 2^e) / q) / 2^(57-e), where 0 <= r * 5^6 /
\* 2^e < 1.  An odd number of halves leaves the sign bit set; an even number
\* 2j leaves ms * 10^6 - j * 2^64.  A negative x occurs only with e = 0,
\* where nothing wraps.
TimeLeftVal(f, e) ==
    LET p == f[1]
        q == f[2]
        fives == NanosecondsPerMillisecond \div Pow2(6)
        loss == IF ((p % q) * Pow2Mod(e, q)) % q > 0 THEN 1 ELSE 0
        halves == IF e <= 26 \/ p <= 0 THEN 0
                  ELSE ((p * fives - loss) \div q)
                           \div Pow2(Int64Bits - 1 - 6 - e)
        xn == p * fives - (halves \div 2) * Pow2(Int64Bits - 6 - e) * q
        yd == fives * q
    IN  IF halves = 0 THEN Trunc(f)
        ELSE IF halves % 2 = 1 THEN 0 - 1
        ELSE IF loss = 1 /\ xn % yd = 0 THEN (xn \div yd) - 1
        ELSE xn \div yd

\* a Stats() that tests only the anchor
HasNoStatsAnchorOnly(t) == t.lastMeasurement = <<>>

\* the condition under which tracker.Stats returns nil
HasNoStats(t) == FEq(t.speed, Zero) \/ t.lastMeasurement = <<>>

\* tracker.Stats: <<>> is nil, else <<snapshot>>; timeLeft is <<>> (nil) or
\* <<milliseconds>>, in units of 2^speedExponent; defined is FALSE when the
\* conversion of secondsLeft to a time.Duration has no defined result
\* (secondsLeft infinite or NaN)
StatsOf(t) ==
    IF HasNoStats(t)
    THEN <<>>
    ELSE LET secondsLeft == FDiv(Remaining(t), t.speedAverage)
             timeLeftVal ==
                 TimeLeftVal(FMul(secondsLeft, F(MillisecondsPerSecond, 1)),
                             speedExponent)
         IN  IF IsFinite(secondsLeft)
             THEN <<[speed |-> t.speedAverage,
                     timeLeft |-> IF timeLeftVal < 0 THEN <<>>
                                  ELSE <<timeLeftVal>>,
                     value |-> t.value,
                     defined |-> TRUE]>>
             ELSE <<[speed |-> t.speedAverage, timeLeft |-> <<>>,
                     value |-> t.value, defined |-> FALSE]>>

\* tracker.Stats
Stats == StatsOf(Tracker)

\* tracker.Progress
Progress == value

\* tracker.Duration
Duration == duration

\* tracker.Paused
Paused == paused

\* --------------------------------------------------------------- actions
\* a tracker on its own: no bar, every caller outside any operation
NoBar ==
    /\ pc = [th \in Threads |-> "idle"]
    /\ step = [th \in Threads |-> 0]
    /\ cbs = [th \in Threads |-> <<>>]
    /\ mutex = "none"
    /\ barMutex = "none"
    /\ lines = <<>>
    /\ nLines = 0
    /\ finished = FALSE
    /\ finishChan = 0
    /\ out = <<>>
    /\ redraws = 0
    /\ prefix = 0
    /\ nCalls = 0

Init ==
    /\ NoBar
    /\ clock = 0
    /\ \E v \in Samples, run \in Runs :
          /\ ticksPerSecond = run.ticksPerSecond
          /\ speedExponent = 0
          /\ StartsAs(New(v, run.MeasurementInterval))
          /\ call = [op |-> "New", v |-> v, sinceLast |-> 0 - 1]
    /\ invoked = <<>>
    /\ ret = <<>>
    /\ pre = <<>>
    /\ recorded = <<>>
    /\ nOps = 0

\* bookkeeping shared by every operation: what was called, and in which state
Called(op, v, sinceLast) ==
    /\ nOps < MaxOps
    /\ nOps' = nOps + 1
    /\ call' = [op |-> op, v |-> v, sinceLast |-> sinceLast]
    /\ pre' = <<[t |-> Tracker, clock |-> clock, op |-> call.op, ret |-> ret,
                 recorded |-> recorded]>>
    /\ UNCHANGED <<ticksPerSecond, speedExponent>>
    /\ UNCHANGED barVars

\* tracker.Pause
Pause ==
    /\ Called("Pause", Zero, 0 - 1)
    /\ Becomes(lockedResetMeasurement([Tracker EXCEPT !.paused = TRUE]))
    /\ recorded' = <<>>
    /\ UNCHANGED <<clock, invoked, ret>>

\* tracker.Resume
Resume ==
    /\ Called("Resume", Zero, 0 - 1)
    /\ Becomes(lockedResetMeasurement([Tracker EXCEPT !.paused = FALSE]))
    /\ recorded' = <<>>
    /\ UNCHANGED <<clock, invoked, ret>>

\* tracker.SetProgress(v); skew is the time that passes between time.Now()
\* and time.Since(lastMeasurement.time) in lockedUpdateMeasurement
SetProgress(v, skew) ==
    LET c == clamp(v)
        last == AfterPauseCheck(Tracker).lastMeasurement
        sinceLast == IF last = <<>> THEN 0 - 1
                     ELSE (clock + skew) - last[1].time
        path == UpdatePath(Tracker, c, sinceLast)
        t == lockedUpdateMeasurement(Tracker, c, clock, sinceLast)
    IN
    /\ last = <<>> => skew = 0
    /\ clock + skew <= MaxTime
    /\ Called("SetProgress", v, sinceLast)
    /\ clock' = clock + skew
    /\ Becomes([t EXCEPT !.value = c])
    /\ recorded' = CASE path = "rate" -> Append(recorded, t.speed)
                     [] path = "regression" -> <<>>
                     [] OTHER -> IF paused THEN <<>> ELSE recorded
    /\ UNCHANGED <<invoked, ret>>

\* tracker.OnFinish: the callback registered k-th is callback k
OnFinish ==
    /\ Len(onFinish) < MaxObservers
    /\ Called("OnFinish", Zero, 0 - 1)
    /\ Becomes([Tracker EXCEPT !.onFinish = Append(@, Len(@) + 1)])
    /\ UNCHANGED <<clock, invoked, ret, recorded>>

\* tracker.Finish
Finish ==
    LET t == [Tracker EXCEPT !.duration = FinishDuration(Tracker, clock),
                             !.lastMeasurement = <<>>]
    IN
    /\ Called("Finish", Zero, 0 - 1)
    /\ invoked' = invoked \o onFinish
    /\ Becomes(t)
    /\ ret' = <<CompletionStats(t)>>
    /\ UNCHANGED <<clock, recorded>>

\* the passage of time
Tick ==
    /\ clock < MaxTime
    /\ clock' = clock + 1
    /\ UNCHANGED <<ticksPerSecond, speedExponent, value, measurementInterval, paused,
                   onFinish, duration, speed, minSpeed, maxSpeed, speedAverage,
                   secondsLeftAverage, lastMeasurement, invoked, ret, call,
                   pre, recorded, nOps>>
    /\ UNCHANGED barVars

Next ==
    \/ \E v \in Samples, skew \in 0..MaxSkew : SetProgress(v, skew)
    \/ Pause
    \/ Resume
    \/ OnFinish
    \/ Finish
    \/ Tick

Spec == Init /\ [][Next]_vars

\* ------------------------------------------------------- the progress bar
\* the callback probar.New registers with the tracker: bar.finish; every
\* callback registered later is an observer of the caller's that calls back
\* into the tracker (Progress)
BarFinish == 1

\* the order of the steps of tracker.Finish with the mutex taken first
FinishStepsLockFirst == <<"lock", "range", "call", "finalize">>

\* the order of the steps of tracker.Finish: it ranges over t.onFinish,
\* calls each callback, locks the mutex and computes the CompletionStats
FinishSteps == <<"range", "call", "lock", "finalize">>

\* bar.clear, called by write or by finish
Clear(by) == [text |-> "clear", line |-> 0, by |-> by]

\* opts.Printf("%s\n", line)
Line(k) == [text |-> "line", line |-> k, by |-> "write"]

\* the bar line write prints last
BarLine == [text |-> "bar", line |-> 0, by |-> "write"]

\* write printing the pending lines without clearing the bar line first
WriteOutputNoClear(ls) == [i \in 1..Len(ls) |-> Line(ls[i])] \o <<BarLine>>

\* what bar.write prints when the pending lines are ls
WriteOutput(ls) ==
    (IF Len(ls) > 0
     THEN <<Clear("write")>> \o [i \in 1..Len(ls) |-> Line(ls[i])]
     ELSE <<>>) \o <<BarLine>>

\* a finish that does not look at the flag
NeverFinished(f) == FALSE

\* a finish that takes the early return every time
AlwaysFinished(f) == TRUE

\* the test bar.finish makes before it shuts the bar down
AlreadyFinished(f) == f

\* what no step of the bar or of its callers changes
trackerFrame == <<ticksPerSecond, speedExponent, clock, call, pre, recorded,
                  nOps>>

\* the fields of the tracker
trackerVars == <<value, measurementInterval, paused, onFinish, duration, speed,
                 minSpeed, maxSpeed, speedAverage, secondsLeftAverage,
                 lastMeasurement>>

\* thread th goes to loc
Goto(th, loc) == pc' = [pc EXCEPT ![th] = loc]

\* the step of Finish thread th is about to take, "return" after the last
FinishStep(th) ==
    IF pc[th] # "Finish" THEN "none"
    ELSE IF step[th] > Len(FinishSteps) THEN "return"
    ELSE FinishSteps[step[th]]

\* thread th has taken its step of Finish
NextStep(th) == step' = [step EXCEPT ![th] = @ + 1]

\* the state after probar.New(tracker.New(opts), opts)
BarInit ==
    /\ ticksPerSecond = 1
    /\ speedExponent = 0
    /\ clock = 0
    /\ StartsAs([New(Zero, 0) EXCEPT !.onFinish = <<BarFinish>>])
    /\ call = [op |-> "New", v |-> Zero, sinceLast |-> 0 - 1]
    /\ invoked = <<>>
    /\ ret = <<>>
    /\ pre = <<>>
    /\ recorded = <<>>
    /\ nOps = 0
    /\ pc = [th \in Threads |-> IF th = Writer THEN "update.lock" ELSE "idle"]
    /\ step = [th \in Threads |-> 0]
    /\ cbs = [th \in Threads |-> <<>>]
    /\ mutex = "none"
    /\ barMutex = "none"
    /\ lines = <<>>
    /\ nLines = 0
    /\ finished = FALSE
    /\ finishChan = 0
    /\ out = <<>>
    /\ redraws = 0
    /\ prefix = 0
    /\ nCalls = 0

\* bar.Println: b.mutex.Lock()
PrintlnLock(th) ==
    /\ pc[th] = "idle"
    /\ nCalls < MaxCalls
    /\ nLines < MaxLines
    /\ barMutex = "none"
    /\ barMutex' = th
    /\ nCalls' = nCalls + 1
    /\ Goto(th, "Println.append")
    /\ UNCHANGED <<trackerFrame, prefix, trackerVars, invoked, ret, step, cbs, mutex,
                   lines, nLines, finished, finishChan, out, redraws>>

\* bar.Println: b.lines = append(b.lines, s), and the deferred Unlock
PrintlnAppend(th) ==
    /\ pc[th] = "Println.append"
    /\ lines' = Append(lines, nLines + 1)
    /\ nLines' = nLines + 1
    /\ barMutex' = "none"
    /\ Goto(th, "idle")
    /\ UNCHANGED <<trackerFrame, prefix, trackerVars, invoked, ret, step, cbs, mutex,
                   finished, finishChan, out, redraws, nCalls>>

\* tracker.OnFinish: t.mutex.Lock()
OnFinishLock(th) ==
    /\ pc[th] = "idle"
    /\ nCalls < MaxCalls
    /\ Len(onFinish) < MaxObservers
    /\ mutex = "none"
    /\ mutex' = th
    /\ nCalls' = nCalls + 1
    /\ Goto(th, "OnFinish.append")
    /\ UNCHANGED <<trackerFrame, prefix, trackerVars, invoked, ret, step, cbs,
                   barMutex, lines, nLines, finished, finishChan, out,
                   redraws>>

\* tracker.OnFinish: t.onFinish = append(t.onFinish, f), and the deferred
\* Unlock
OnFinishAppend(th) ==
    /\ pc[th] = "OnFinish.append"
    /\ Becomes([Tracker EXCEPT !.onFinish = Append(@, Len(@) + 1)])
    /\ mutex' = "none"
    /\ Goto(th, "idle")
    /\ UNCHANGED <<trackerFrame, prefix, invoked, ret, step, cbs, barMutex, lines,
                   nLines, finished, finishChan, out, redraws, nCalls>>

\* a caller calls tracker.Finish
FinishCall(th) ==
    /\ pc[th] = "idle"
    /\ nCalls < MaxCalls
    /\ nCalls' = nCalls + 1
    /\ step' = [step EXCEPT ![th] = 1]
    /\ Goto(th, "Finish")
    /\ UNCHANGED <<trackerFrame, prefix, trackerVars, invoked, ret, cbs, mutex,
                   barMutex, lines, nLines, finished, finishChan, out,
                   redraws>>

\* tracker.Finish: range t.onFinish evaluates the slice, once
FinishRange(th) ==
    /\ FinishStep(th) = "range"
    /\ cbs' = [cbs EXCEPT ![th] = onFinish]
    /\ NextStep(th)
    /\ UNCHANGED <<trackerFrame, prefix, trackerVars, invoked, ret, pc, mutex,
                   barMutex, lines, nLines, finished, finishChan, out,
                   redraws, nCalls>>

\* tracker.Finish: cb() for the next callback of the range, or the end of
\* the loop
FinishInvoke(th) ==
    /\ FinishStep(th) = "call"
    /\ IF cbs[th] = <<>>
       THEN /\ NextStep(th)
            /\ UNCHANGED <<pc, cbs, invoked>>
       ELSE /\ cbs' = [cbs EXCEPT ![th] = Tail(@)]
            /\ invoked' = Append(invoked, Head(cbs[th]))
            /\ Goto(th, IF Head(cbs[th]) = BarFinish THEN "finish.lock"
                        ELSE "Progress.lock")
            /\ UNCHANGED step
    /\ UNCHANGED <<trackerFrame, prefix, trackerVars, ret, mutex, barMutex, lines,
                   nLines, finished, finishChan, out, redraws, nCalls>>

\* tracker.Finish: t.mutex.Lock()
FinishLock(th) ==
    /\ FinishStep(th) = "lock"
    /\ mutex = "none"
    /\ mutex' = th
    /\ NextStep(th)
    /\ UNCHANGED <<trackerFrame, prefix, trackerVars, invoked, ret, pc, cbs, barMutex,
                   lines, nLines, finished, finishChan, out, redraws, nCalls>>

\* tracker.Finish: the duration is made final, the anchor dropped, the
\* CompletionStats computed, and the deferred Unlock
FinishFinalize(th) ==
    LET t == [Tracker EXCEPT !.duration = FinishDuration(Tracker, clock),
                             !.lastMeasurement = <<>>]
    IN
    /\ FinishStep(th) = "finalize"
    /\ Becomes(t)
    /\ ret' = <<CompletionStats(t)>>
    /\ mutex' = "none"
    /\ NextStep(th)
    /\ UNCHANGED <<trackerFrame, prefix, invoked, pc, cbs, barMutex, lines, nLines,
                   finished, finishChan, out, redraws, nCalls>>

\* tracker.Finish returns
FinishReturn(th) ==
    /\ FinishStep(th) = "return"
    /\ step' = [step EXCEPT ![th] = 0]
    /\ Goto(th, "idle")
    /\ UNCHANGED <<trackerFrame, prefix, trackerVars, invoked, ret, cbs, mutex,
                   barMutex, lines, nLines, finished, finishChan, out,
                   redraws, nCalls>>

\* bar.finish: b.mutex.Lock()
BarFinishLock(th) ==
    /\ pc[th] = "finish.lock"
    /\ barMutex = "none"
    /\ barMutex' = th
    /\ Goto(th, "finish.locked")
    /\ UNCHANGED <<trackerFrame, prefix, trackerVars, invoked, ret, step, cbs, mutex,
                   lines, nLines, finished, finishChan, out, redraws, nCalls>>

\* bar.finish: nothing if b.finished, else close(b.finishChan), the flag and
\* b.clear(); then the deferred Unlock, and back to the caller's Finish
BarFinishShutdown(th) ==
    /\ pc[th] = "finish.locked"
    /\ IF AlreadyFinished(finished)
       THEN UNCHANGED <<finishChan, finished, out>>
       ELSE /\ finishChan' = finishChan + 1
            /\ finished' = TRUE
            /\ out' = Append(out, Clear("finish"))
    /\ barMutex' = "none"
    /\ Goto(th, "Finish")
    /\ UNCHANGED <<trackerFrame, prefix, trackerVars, invoked, ret, step, cbs, mutex,
                   lines, nLines, redraws, nCalls>>

\* tracker.Stats, called by bar.write: t.mutex.Lock()
StatsLock(th) ==
    /\ pc[th] = "Stats.lock"
    /\ mutex = "none"
    /\ mutex' = th
    /\ Goto(th, "Stats.read")
    /\ UNCHANGED <<trackerFrame, prefix, trackerVars, invoked, ret, step, cbs,
                   barMutex, lines, nLines, finished, finishChan, out,
                   redraws, nCalls>>

\* tracker.Stats: the snapshot is taken, and the deferred Unlock
StatsRead(th) ==
    /\ pc[th] = "Stats.read"
    /\ mutex' = "none"
    /\ Goto(th, "Progress.lock")
    /\ UNCHANGED <<trackerFrame, prefix, trackerVars, invoked, ret, step, cbs,
                   barMutex, lines, nLines, finished, finishChan, out,
                   redraws, nCalls>>

\* tracker.Progress, called by bar.write or by an observer: t.mutex.Lock()
ProgressLock(th) ==
    /\ pc[th] = "Progress.lock"
    /\ mutex = "none"
    /\ mutex' = th
    /\ Goto(th, "Progress.read")
    /\ UNCHANGED <<trackerFrame, prefix, trackerVars, invoked, ret, step, cbs,
                   barMutex, lines, nLines, finished, finishChan, out,
                   redraws, nCalls>>

\* tracker.Progress: t.value is read, and the deferred Unlock; the writer
\* goes on with write, an observer returns to the Finish that called it
ProgressRead(th) ==
    /\ pc[th] = "Progress.read"
    /\ mutex' = "none"
    /\ Goto(th, IF th = Writer THEN "write.print" ELSE "Finish")
    /\ UNCHANGED <<trackerFrame, prefix, trackerVars, invoked, ret, step, cbs,
                   barMutex, lines, nLines, finished, finishChan, out,
                   redraws, nCalls>>

\* bar.update: b.mutex.Lock(), then write begins with tracker.Stats()
UpdateLock ==
    /\ pc[Writer] = "update.lock"
    /\ barMutex = "none"
    /\ barMutex' = Writer
    /\ Goto(Writer, "Stats.lock")
    /\ UNCHANGED <<trackerFrame, prefix, trackerVars, invoked, ret, step, cbs, mutex,
                   lines, nLines, finished, finishChan, out, redraws, nCalls>>

\* bar.write: the pending lines and the bar line are printed, b.lines = nil
WritePrint ==
    /\ pc[Writer] = "write.print"
    /\ out' = out \o WriteOutput(lines)
    /\ lines' = <<>>
    /\ Goto(Writer, "update.unlock")
    /\ UNCHANGED <<trackerFrame, prefix, trackerVars, invoked, ret, step, cbs, mutex,
                   barMutex, nLines, finished, finishChan, redraws, nCalls>>

\* bar.update: the deferred Unlock, back in the loop of bar.writer
UpdateUnlock ==
    /\ pc[Writer] = "update.unlock"
    /\ barMutex' = "none"
    /\ Goto(Writer, "select")
    /\ UNCHANGED <<trackerFrame, prefix, trackerVars, invoked, ret, step, cbs, mutex,
                   lines, nLines, finished, finishChan, out, redraws, nCalls>>

\* bar.writer: case <-b.finishChan, ready once the channel is closed
SelectFinish ==
    /\ pc[Writer] = "select"
    /\ finishChan > 0
    /\ Goto(Writer, "done")
    /\ UNCHANGED <<trackerFrame, prefix, trackerVars, invoked, ret, step, cbs, mutex,
                   barMutex, lines, nLines, finished, finishChan, out,
                   redraws, nCalls>>

\* bar.writer: case <-time.After(b.opts.RefreshRate), then b.update()
SelectTimer ==
    /\ pc[Writer] = "select"
    /\ redraws < MaxRedraws
    /\ redraws' = redraws + 1
    /\ Goto(Writer, "update.lock")
    /\ UNCHANGED <<trackerFrame, prefix, trackerVars, invoked, ret, step, cbs, mutex,
                   barMutex, lines, nLines, finished, finishChan, out,
                   nCalls>>

BarNext ==
    \/ \E th \in Callers : PrintlnLock(th)
    \/ \E th \in Callers : PrintlnAppend(th)
    \/ \E th \in Callers : OnFinishLock(th)
    \/ \E th \in Callers : OnFinishAppend(th)
    \/ \E th \in Callers : FinishCall(th)
    \/ \E th \in Callers : FinishRange(th)
    \/ \E th \in Callers : FinishInvoke(th)
    \/ \E th \in Callers : FinishLock(th)
    \/ \E th \in Callers : FinishFinalize(th)
    \/ \E th \in Callers : FinishReturn(th)
    \/ \E th \in Callers : BarFinishLock(th)
    \/ \E th \in Callers : BarFinishShutdown(th)
    \/ StatsLock(Writer)
    \/ StatsRead(Writer)
    \/ \E th \in Threads : ProgressLock(th)
    \/ \E th \in Threads : ProgressRead(th)
    \/ UpdateLock
    \/ WritePrint
    \/ UpdateUnlock
    \/ SelectFinish
    \/ SelectTimer

SpecBar == BarInit /\ [][BarNext]_vars

\* every thread that can take a step eventually takes one: goroutines are
\* scheduled fairly
FairSpecBar == SpecBar /\ WF_vars(BarNext)

\* the progress a caller of the bar's tracker reports
BarSamples == { F(1, ValueDenominator) }

\* the texts a caller sets as the prefix of the bar
Prefixes == {1}

\* a caller calls tracker.SetProgress: value = clamp(value), then it is
\* about to lock the tracker's mutex
SetProgressCall(th) ==
    /\ pc[th] = "idle"
    /\ nCalls < MaxCalls
    /\ nCalls' = nCalls + 1
    /\ Goto(th, "SetProgress.lock")
    /\ UNCHANGED <<trackerFrame, prefix, trackerVars, invoked, ret, step, cbs,
                   mutex, barMutex, lines, nLines, finished, finishChan, out,
                   redraws>>

\* tracker.SetProgress: t.mutex.Lock()
SetProgressLock(th) ==
    /\ pc[th] = "SetProgress.lock"
    /\ mutex = "none"
    /\ mutex' = th
    /\ Goto(th, "SetProgress.update")
    /\ UNCHANGED <<trackerFrame, prefix, trackerVars, invoked, ret, step, cbs,
                   barMutex, lines, nLines, finished, finishChan, out,
                   redraws, nCalls>>

\* tracker.SetProgress: lockedUpdateMeasurement(value), t.value = value,
\* and the deferred Unlock
SetProgressUpdate(th, v) ==
    LET c == clamp(v)
        last == AfterPauseCheck(Tracker).lastMeasurement
        sinceLast == IF last = <<>> THEN 0 - 1 ELSE clock - last[1].time
        t == lockedUpdateMeasurement(Tracker, c, clock, sinceLast)
    IN
    /\ pc[th] = "SetProgress.update"
    /\ Becomes([t EXCEPT !.value = c])
    /\ mutex' = "none"
    /\ Goto(th, "idle")
    /\ UNCHANGED <<trackerFrame, prefix, invoked, ret, step, cbs, barMutex,
                   lines, nLines, finished, finishChan, out, redraws, nCalls>>

\* a caller calls bar.SetPrefix and is about to lock the bar's mutex;
\* SetPostfix and SetScale take the same steps with another field
SetPrefixCall(th) ==
    /\ pc[th] = "idle"
    /\ nCalls < MaxCalls
    /\ nCalls' = nCalls + 1
    /\ Goto(th, "SetPrefix.lock")
    /\ UNCHANGED <<trackerFrame, prefix, trackerVars, invoked, ret, step, cbs,
                   mutex, barMutex, lines, nLines, finished, finishChan, out,
                   redraws>>

\* bar.SetPrefix: b.mutex.Lock()
SetPrefixLock(th) ==
    /\ pc[th] = "SetPrefix.lock"
    /\ barMutex = "none"
    /\ barMutex' = th
    /\ Goto(th, "SetPrefix.store")
    /\ UNCHANGED <<trackerFrame, prefix, trackerVars, invoked, ret, step, cbs,
                   mutex, lines, nLines, finished, finishChan, out, redraws,
                   nCalls>>

\* bar.SetPrefix: b.prefix = prefix, and the deferred Unlock
SetPrefixStore(th, p) ==
    /\ pc[th] = "SetPrefix.store"
    /\ prefix' = p
    /\ barMutex' = "none"
    /\ Goto(th, "idle")
    /\ UNCHANGED <<trackerFrame, trackerVars, invoked, ret, step, cbs, mutex,
                   lines, nLines, finished, finishChan, out, redraws, nCalls>>

\* the bar with callers that print lines, finish the tracker, report
\* progress and set the prefix; bar.finish is the only callback
LockNext ==
    \/ \E th \in Callers : PrintlnLock(th)
    \/ \E th \in Callers : PrintlnAppend(th)
    \/ \E th \in Callers : FinishCall(th)
    \/ \E th \in Callers : FinishRange(th)
    \/ \E th \in Callers : FinishInvoke(th)
    \/ \E th \in Callers : FinishLock(th)
    \/ \E th \in Callers : FinishFinalize(th)
    \/ \E th \in Callers : FinishReturn(th)
    \/ \E th \in Callers : BarFinishLock(th)
    \/ \E th \in Callers : BarFinishShutdown(th)
    \/ StatsLock(Writer)
    \/ StatsRead(Writer)
    \/ \E th \in Threads : ProgressLock(th)
    \/ \E th \in Threads : ProgressRead(th)
    \/ UpdateLock
    \/ WritePrint
    \/ UpdateUnlock
    \/ SelectFinish
    \/ SelectTimer
    \/ \E th \in Callers : SetProgressCall(th)
    \/ \E th \in Callers : SetProgressLock(th)
    \/ \E th \in Callers, v \in BarSamples : SetProgressUpdate(th, v)
    \/ \E th \in Callers : SetPrefixCall(th)
    \/ \E th \in Callers : SetPrefixLock(th)
    \/ \E th \in Callers, p \in Prefixes : SetPrefixStore(th, p)

SpecLocks == BarInit /\ [][LockNext]_vars

\* goroutines are scheduled fairly, and sync.Mutex hands a free mutex to a
\* goroutine that waits for it
FairSpecLocks == SpecLocks /\ WF_vars(LockNext)

\* ---------------------------------------------------------------- claims
\* the state in which the last operation began
Before == pre[1]

\* the anchor the last operation found
AnchorBefore == Before.t.lastMeasurement[1]

\* the last operation was SetProgress
WasSetProgress == pre # <<>> /\ call.op = "SetProgress"

\* C1: right after SetProgress(v), Progress() is 0 when v < 0, 1 when v > 1
\* and v otherwise, in every tracker state
C1_ProgressIsClamped ==
    WasSetProgress =>
        Progress = IF call.v[1] < 0 THEN Zero
                   ELSE IF call.v[1] > call.v[2] THEN One
                   ELSE call.v

\* C1: a throttled SetProgress of a negative value, after Finish was called
C1_Witness ==
    /\ WasSetProgress
    /\ call.v[1] < 0
    /\ call.sinceLast >= 0
    /\ call.sinceLast < measurementInterval
    /\ ret # <<>>
    /\ Progress = Zero

\* C2: the progress value is within [0,1] in every reachable state
C2_ValueInRange == FLe(Zero, Progress) /\ FLe(Progress, One)

\* C3: however often Finish is called, every registered observer is invoked
\* at most once, in registration order
C3_ObserversOnce ==
    \A i, j \in DOMAIN invoked : i < j => invoked[i] < invoked[j]

\* C4: a Finish called right after a Finish adds nothing to the duration and
\* returns the duration the first one returned
C4_FinishTwiceSameDuration ==
    (pre # <<>> /\ call.op = "Finish" /\ Before.op = "Finish") =>
        /\ Duration = Before.t.duration
        /\ ret[1].duration = Before.ret[1].duration

\* C4: two Finish calls in a row, time having passed between them, the first
\* of which had counted an open interval
C4_Witness ==
    /\ pre # <<>>
    /\ call.op = "Finish"
    /\ Before.op = "Finish"
    /\ clock > 0
    /\ Before.ret[1].duration > 0
    /\ Before.ret[1].duration < clock
    /\ ret[1].duration = Before.ret[1].duration

\* C5: once Finish has returned, no operation changes the duration, sets an
\* anchor, or records a speed or a speed extremum
C5_ReadOnlyAfterFinish ==
    (pre # <<>> /\ Before.ret # <<>>) =>
        /\ Duration = Before.t.duration
        /\ lastMeasurement = <<>>
        /\ speed \in {Before.t.speed, Zero}
        /\ minSpeed \in {Before.t.minSpeed, MaxFloat64}
        /\ maxSpeed \in {Before.t.maxSpeed, Zero}

\* C6: SetProgress on an unpaused tracker, at least one measurement interval
\* after the anchor, with a value below the anchor's, leaves Stats() nil
C6_RegressionResets ==
    ( /\ WasSetProgress
      /\ ~Before.t.paused
      /\ Before.t.lastMeasurement # <<>>
      /\ call.sinceLast >= measurementInterval
      /\ FLt(call.v, AnchorBefore.value) ) =>
        Stats = <<>>

\* C6: such a regression, on a tracker whose Stats() was a snapshot
C6_Witness ==
    /\ WasSetProgress
    /\ ~Before.t.paused
    /\ Before.t.lastMeasurement # <<>>
    /\ call.sinceLast >= measurementInterval
    /\ FLt(clamp(call.v), AnchorBefore.value)
    /\ StatsOf(Before.t) # <<>>
    /\ Stats = <<>>
    /\ recorded = <<>>

\* C7: any SetProgress(v) with clamped v below the current value leaves
\* Stats() nil, however little time has passed since the anchor
C7_LowerValueResets ==
    (WasSetProgress /\ FLt(clamp(call.v), Before.t.value)) => Stats = <<>>

\* C8: Stats() is nil exactly when no instantaneous speed has been computed
\* since the last reset
C8_StatsIffRateComputed == (Stats = <<>>) <=> (recorded = <<>>)

\* C8, amended: Stats() is nil exactly when there is no anchor, or no
\* instantaneous speed has been computed since the last reset, or the last
\* one computed is zero
C8_StatsIffNonzeroRate ==
    (Stats = <<>>) <=>
        \/ lastMeasurement = <<>>
        \/ recorded = <<>>
        \/ recorded[Len(recorded)] = Zero

\* C8: a tracker whose Stats() was a snapshot computes a second instantaneous
\* speed, of zero, after which Stats() is nil although the anchor is set
C8_Witness ==
    /\ WasSetProgress
    /\ StatsOf(Before.t) # <<>>
    /\ Before.recorded # <<>>
    /\ Len(recorded) = Len(Before.recorded) + 1
    /\ lastMeasurement # <<>>
    /\ Stats = <<>>

\* C9: while the tracker is paused, Stats() is nil
C9_PausedNoStats == Paused => Stats = <<>>

\* C9: a SetProgress on a paused tracker that raises the value at least one
\* measurement interval after an earlier one made while paused
C9_Witness ==
    /\ WasSetProgress
    /\ Paused
    /\ Before.t.paused
    /\ Before.t.lastMeasurement # <<>>
    /\ clock - AnchorBefore.time >= measurementInterval
    /\ FLt(AnchorBefore.value, value)
    /\ Stats = <<>>

\* C10: no SetProgress, Pause or Finish executed while the tracker is paused
\* increases the duration, or reports a larger one
C10_PausedAddsNoDuration ==
    ( /\ pre # <<>>
      /\ Before.t.paused
      /\ call.op \in {"SetProgress", "Pause", "Finish"} ) =>
        /\ Duration = Before.t.duration
        /\ call.op = "Finish" => ret[1].duration = Before.t.duration

\* the value SetProgress is specified to store for its argument
ArgInRange ==
    IF call.v[1] < 0 THEN Zero
    ELSE IF call.v[1] > call.v[2] THEN One
    ELSE call.v

\* the last operation was a SetProgress that computed an instantaneous speed
WasRate == WasSetProgress /\ Len(recorded) = Len(Before.recorded) + 1

\* every instantaneous speed computed since the last reset is the same and
\* positive: the measured rate of progress is constant
ConstantRate ==
    /\ recorded # <<>>
    /\ \A i \in DOMAIN recorded : recorded[i] = recorded[1]
    /\ FLt(Zero, recorded[1])

\* the last sample and the one before it each came at least one measurement
\* interval after its predecessor, at a constant rate, and each gave a snapshot
ConstantFeed ==
    /\ WasRate
    /\ Len(recorded) >= 2
    /\ ConstantRate
    /\ Before.t.value = AnchorBefore.value
    /\ StatsOf(Before.t) # <<>>
    /\ Stats # <<>>

RampUp ==
    \A i, j \in DOMAIN recorded : i < j => FLe(recorded[i], recorded[j])

\* the instantaneous speeds computed since the last reset never increase
RampDown ==
    \A i, j \in DOMAIN recorded : i < j => FLe(recorded[j], recorded[i])

\* the last operation reset nothing: no Pause, Resume or regression
NoResetSince == pre # <<>> /\ Len(recorded) >= Len(Before.recorded)

\* C12: while the instantaneous speeds never decrease (never increase), no
\* operation short of a reset lowers (raises) the smoothed speed, which is
\* the speed of every Stats() snapshot
C12_SmoothedSpeedFollowsRamp ==
    /\ (Stats # <<>>) => (Stats[1].speed = speedAverage)
    /\ (NoResetSince /\ RampUp) => FLe(Before.t.speedAverage, speedAverage)
    /\ (NoResetSince /\ RampDown /\ Before.recorded # <<>>) =>
           FLe(speedAverage, Before.t.speedAverage)

\* C12: a sample faster than the one before it, between two snapshots the
\* later of which shows the higher smoothed speed
C12_Witness ==
    /\ WasRate
    /\ Len(recorded) >= 2
    /\ FLt(recorded[Len(recorded) - 1], recorded[Len(recorded)])
    /\ StatsOf(Before.t) # <<>>
    /\ Stats # <<>>
    /\ FLt(StatsOf(Before.t)[1].speed, Stats[1].speed)
    /\ FLt(Stats[1].speed, speed)

\* the last operation was a SetProgress on an unpaused tracker whose anchor
\* was at least one measurement interval old, with a value below the anchor's
WasRegression ==
    /\ WasSetProgress
    /\ ~Before.t.paused
    /\ Before.t.lastMeasurement # <<>>
    /\ call.sinceLast >= measurementInterval
    /\ FLt(ArgInRange, AnchorBefore.value)

\* C18: after a regressive sample the anchor is that sample: the time of the
\* call and the new value
C18_RegressionReanchors ==
    WasRegression =>
        lastMeasurement = <<[time |-> Before.clock, value |-> ArgInRange]>>

\* the last operation was a SetProgress on an unpaused tracker less than one
\* measurement interval after its anchor
WasThrottled ==
    /\ WasSetProgress
    /\ ~Before.t.paused
    /\ Before.t.lastMeasurement # <<>>
    /\ call.sinceLast < measurementInterval

C20_PauseResumeReset ==
    (pre # <<>> /\ call.op \in {"Pause", "Resume"}) =>
        /\ Paused = (call.op = "Pause")
        /\ lastMeasurement = <<>>
        /\ speed = Zero
        /\ minSpeed = New(Zero, 0).minSpeed
        /\ maxSpeed = New(Zero, 0).maxSpeed
        /\ speedAverage = Zero
        /\ secondsLeftAverage = Zero
        /\ value = Before.t.value
        /\ duration = Before.t.duration

\* C20: a Pause of an already paused tracker that had an anchor, after a
\* duration was counted
C20_Witness ==
    /\ pre # <<>>
    /\ call.op = "Pause"
    /\ Before.t.paused
    /\ Before.t.lastMeasurement # <<>>
    /\ Paused
    /\ lastMeasurement = <<>>

\* ------------------------------------------------------ claims on the bar
\* the ids of the lines written to the sink, in the order written
LinesWritten == [i \in 1..Len(SelectSeq(out, LAMBDA e : e.text = "line")) |->
                    SelectSeq(out, LAMBDA e : e.text = "line")[i].line]

\* the writes made by bar.finish
ShutdownClears == SelectSeq(out, LAMBDA e : e.by = "finish")

\* C13: the lines written to the sink, followed by the lines still queued,
\* are the lines enqueued, in the order enqueued, each once; every line written
\* comes after a clear made by write or after another line, and before
\* another line or the bar line; and when write has printed, before the bar's
\* lock is released, the queue is empty
C13_PrintlnOrdering ==
    /\ LinesWritten \o lines = [i \in 1..nLines |-> i]
    /\ \A i \in 1..Len(out) :
          out[i].text = "line" =>
              /\ i > 1
              /\ out[i - 1] = Clear("write") \/ out[i - 1].text = "line"
              /\ i < Len(out)
              /\ out[i + 1].text = "line" \/ out[i + 1] = BarLine
    /\ pc[Writer] = "update.unlock" => lines = <<>>

\* C13: a redraw has just written two pending lines, after a redraw that
\* found none
C13_Witness ==
    /\ pc[Writer] = "update.unlock"
    /\ Len(out) = 5
    /\ out = <<BarLine, Clear("write"), Line(1), Line(2), BarLine>>

\* C14: a write made by bar.finish is the last write to the sink
C14_NoWriteAfterShutdown ==
    \A i \in 1..Len(out) : out[i].by = "finish" => i = Len(out)

\* the number of calls of bar.finish that have returned
FinishObserverReturns ==
    Len(SelectSeq(invoked, LAMBDA cb : cb = BarFinish))
        - Cardinality({ th \in Callers :
                          pc[th] \in {"finish.lock", "finish.locked"} })

\* C15: the finish channel is closed at most once, bar.finish clears the bar
\* line as often as it closes the channel, and once a call of bar.finish
\* has returned the bar line was cleared by it exactly once
C15_ShutdownOnce ==
    /\ finishChan <= 1
    /\ Len(ShutdownClears) = finishChan
    /\ FinishObserverReturns >= 1 => Len(ShutdownClears) = 1

\* C15: bar.finish has run to its end twice
C15_Witness ==
    /\ FinishObserverReturns >= 2
    /\ finishChan = 1
    /\ finished

\* thread th is inside a callback invoked by its tracker.Finish
InObserver(th) ==
    /\ step[th] > 0
    /\ pc[th] \in {"finish.lock", "finish.locked", "Progress.lock",
                    "Progress.read"}

\* thread th is about to lock the tracker's mutex
LocksMutex(th) ==
    \/ pc[th] \in {"Stats.lock", "Progress.lock"}
    \/ FinishStep(th) = "lock"

\* C16: a thread that enters a callback invoked by its Finish, or that is about
\* to lock the tracker's mutex, does not hold that mutex; and every call of
\* Finish returns, with observers that call Progress
C16_ObserversRunUnlocked ==
    /\ [](\A th \in Callers :
            /\ pc[th] \in {"finish.lock", "Progress.lock"} => mutex # th
            /\ LocksMutex(th) => mutex # th)
    /\ \A th \in Callers : (step[th] > 0) ~> (step[th] = 0)

\* C16: an observer invoked by Finish is inside tracker.Progress, holding the
\* tracker's mutex
C16_Witness ==
    \E th \in Callers :
        /\ InObserver(th)
        /\ pc[th] = "Progress.read"
        /\ mutex = th

\* the next step of thread th reads or writes a field of the tracker
AccessesTracker(th) ==
    \/ pc[th] \in {"OnFinish.append", "Stats.read", "Progress.read"}
    \/ FinishStep(th) \in {"range", "finalize"}

\* C17: a thread about to read or write a field of the tracker holds the
\* tracker's mutex
C17_SerializedByMutex ==
    \A th \in Threads : AccessesTracker(th) => mutex = th

\* ------------------------------------------------- more claims on the tracker
\* C21: a SetProgress that computes no instantaneous speed (a first sample, a
\* throttled one, one made while paused, a regressive one) leaves Duration()
\* as it was
C21_DurationOnlyOnRate ==
    (WasSetProgress /\ ~WasRate) => Duration = Before.t.duration

Smoothed(a, x) ==
    IF a = Zero THEN x
    ELSE FAdd(FMul(x, F(2, 5 + 1)), FMul(a, FSub(One, F(2, 5 + 1))))

\* C23: each instantaneous speed is added to speedAverage, and the seconds
\* left at the new smoothed speed to secondsLeftAverage, as Add specifies:
\* the added value itself when the average is 0 (never fed, or fed zeros),
\* else x*decay + value*(1-decay) with decay = 2/(5+1)
C23_MovingAverage ==
    /\ decay = F(2, 5 + 1)
    /\ WasRate =>
        /\ speedAverage = Smoothed(Before.t.speedAverage, speed)
        /\ secondsLeftAverage =
               Smoothed(Before.t.secondsLeftAverage,
                        FDiv(FSub(One, Before.t.value), speedAverage))

\* C23: an average that was fed a positive speed is fed a different one
C23_Witness ==
    /\ WasRate
    /\ Len(recorded) = 2
    /\ FLt(Zero, Before.t.speedAverage)
    /\ Before.t.speedAverage = recorded[1]
    /\ recorded[2] # recorded[1]
    /\ speedAverage # speed
    /\ speedAverage # Before.t.speedAverage

\* an average that was fed a zero is fed a positive speed and takes it as
\* its value
C23_ColdStartAfterZero ==
    /\ WasRate
    /\ Len(recorded) = 2
    /\ recorded[1] = Zero
    /\ FLt(Zero, speed)
    /\ speedAverage = speed

\* ------------------------------------------------------------ slow progress
\* the exponents of slow progress: a step of s * 2^-e for a sample s
SlowExponents == 28..37

\* the positive samples, the mantissas of a slow step
SlowSteps == { s \in Samples : FLt(Zero, s) /\ FLe(s, One) }

\* the tracker after New(Opts{}), SetProgress(0), SetProgress(x) one second
\* later with x = s * 2^-speedExponent, and SetProgress(v) at once, which is
\* throttled and stores v only.  The second call computes with x in units of
\* 2^-speedExponent, in which the anchor it leaves keeps its value.
SlowTracker(s, v) ==
    LET t0 == New(Zero, 0)
        t1 == lockedUpdateMeasurement(t0, Zero, 0, 0 - 1)
        t2 == lockedUpdateMeasurement(t1, s, Second, Second)
    IN  [t2 EXCEPT !.value = clamp(v)]

\* the state after those calls
SlowInit ==
    /\ NoBar
    /\ ticksPerSecond = 1
    /\ clock = Second
    /\ \E e \in SlowExponents, s \in SlowSteps, v \in Samples :
          /\ speedExponent = e
          /\ StartsAs(SlowTracker(s, v))
          /\ call = [op |-> "SetProgress", v |-> v, sinceLast |-> 0]
          /\ recorded = <<SlowTracker(s, v).speed>>
    /\ invoked = <<>>
    /\ ret = <<>>
    /\ pre = <<>>
    /\ nOps = 0

\* tracker.Stats, called by the program: ret is what it returns
CallStats ==
    /\ Called("Stats", Zero, 0 - 1)
    /\ ret' = Stats
    /\ UNCHANGED <<clock, trackerVars, invoked, recorded>>

SlowNext ==
    \/ CallStats

SpecSlow == SlowInit /\ [][SlowNext]_vars

\* C27: every snapshot Stats() returns has a smoothed speed above zero and a
\* TimeLeft that is neither nil nor negative
C27_SnapshotHasTimeLeft ==
    (call.op = "Stats" /\ ret # <<>>) =>
        /\ FLt(Zero, ret[1].speed)
        /\ ret[1].defined
        /\ ret[1].timeLeft # <<>>
        /\ ret[1].timeLeft[1] >= 0

\* some caller is inside tracker.Finish
FinishCalled == \E th \in Callers : pc[th] = "Finish"

\* the writer goroutine has returned from bar.writer
WriterExited == pc[Writer] = "done"

\* the writer goroutine is in the middle of a redraw: it holds the bar's
\* mutex in bar.update
InRedraw == barMutex = Writer

\* C24: once tracker.Finish has been called on the tracker of a bar, the
\* writer goroutine eventually receives from the closed finishChan and
\* returns, wherever it was when Finish was called: waiting in the select
\* for the timer, waiting for the bar's mutex, or in the middle of a redraw
C24_RendererTerminates ==
    /\ FinishCalled ~> WriterExited
    /\ (FinishCalled /\ InRedraw) ~> WriterExited
    /\ (FinishCalled /\ pc[Writer] = "select") ~> WriterExited
    /\ [](WriterExited => finishChan > 0)

\* the writer has exited after a redraw that a Finish found under way: the
\* shutdown clear follows a bar line in the output
C24_Witness ==
    /\ WriterExited
    /\ finished
    /\ redraws > 0
    /\ \E i \in 1..Len(out) : \E j \in 1..Len(out) :
          /\ i < j
          /\ out[i] = BarLine
          /\ out[j] = Clear("finish")

\* line k, passed to Println, waits in b.lines
Pending(k) == \E i \in 1..Len(lines) : lines[i] = k

\* line k has been printed to the sink
Written(k) == \E i \in 1..Len(out) : out[i] = Line(k)

\* C25: every line passed to Println is eventually written to the sink by
\* a redraw, also a line that waits in b.lines when tracker.Finish is called
C25_LinesEventuallyWritten ==
    \A k \in 1..MaxLines : (Pending(k) /\ FinishCalled) ~> Written(k)

\* the mutex thread th is waiting to lock: "tracker", "bar" or "none"
WaitsFor(th) ==
    IF pc[th] \in {"Stats.lock", "Progress.lock", "SetProgress.lock"}
       \/ FinishStep(th) = "lock"
    THEN "tracker"
    ELSE IF pc[th] \in {"update.lock", "finish.lock", "SetPrefix.lock"}
    THEN "bar"
    ELSE "none"

\* thread th waits for a mutex that another thread, or th itself, holds
Blocked(th) ==
    \/ WaitsFor(th) = "tracker" /\ mutex # "none"
    \/ WaitsFor(th) = "bar" /\ barMutex # "none"

\* one thread holds the bar's mutex and waits for the tracker's while
\* another holds the tracker's and waits for the bar's, or a thread waits
\* for a mutex it holds itself
LockCycle ==
    \/ \E th \in Threads, other \in Threads :
          /\ barMutex = th /\ WaitsFor(th) = "tracker"
          /\ mutex = other /\ WaitsFor(other) = "bar"
    \/ \E th \in Threads :
          \/ mutex = th /\ WaitsFor(th) = "tracker"
          \/ barMutex = th /\ WaitsFor(th) = "bar"

\* C26: the bar's mutex and the tracker's never deadlock: whatever the
\* interleaving of the writer's redraws (Stats and Progress under the bar's
\* mutex), SetPrefix, Println, SetProgress and Finish (which runs bar.finish),
\* no thread holds one mutex while it waits for the other in a cycle, and
\* every thread that waits for a mutex eventually gets it
C26_NoLockDeadlock ==
    /\ [](~LockCycle)
    /\ \A th \in Threads : WaitsFor(th) # "none" ~> WaitsFor(th) = "none"

\* the writer holds the bar's mutex in a redraw and waits for the tracker's
\* mutex, which a caller holds in SetProgress, while the other caller waits
\* in bar.finish for the bar's mutex
C26_Witness ==
    /\ barMutex = Writer
    /\ Blocked(Writer)
    /\ \E th \in Callers, other \in Callers :
          /\ mutex = th
          /\ pc[th] = "SetProgress.update"
          /\ pc[other] = "finish.lock"
          /\ Blocked(other)
====
